---- MODULE Spec2Model ----
(***************************************************************************)
(* Model of the two front-ends of the aggregate annual claims forecaster:  *)
(*   app.py  the Flask service (module-level load, POST /predict, GET /)   *)
(*   ui.py   the Streamlit dashboard (load_resources, year selectbox,      *)
(*           "Generate Forecast" block)                                    *)
(* A behaviour is the life of ONE process: Init picks which script runs    *)
(* and what the three files on disk hold; the actions are the script's     *)
(* load and its handlers.                                                  *)
(***************************************************************************)
EXTENDS Integers, Sequences, FiniteSets, TLC

VARIABLES
    program,          \* "app" (app.py) or "ui" (ui.py): the script this process runs
    files,            \* per file on disk: "ok", "missing" or "corrupt"
    disk,             \* what the three files hold: [model, scaler, data]
    pc,               \* "boot" before the load, "running" after, "crashed"
    model,            \* the module-level globals of both scripts
    scaler,
    historical_data,
    request,          \* app.py: the last request handled
    response,         \* app.py: the response to it
    calls,            \* library/artifact calls made while handling the last request
    handed,           \* <<>> or <<fv>>: the feature vector given to scaler.transform
    year_to_use,      \* ui.py: <<>> (None) or <<y>>, the selectbox value
    button,           \* ui.py: TRUE in the script run started by "Generate Forecast"
    page              \* ui.py: what the last script run rendered

vars == <<program, files, disk, pc, model, scaler, historical_data,
          request, response, calls, handed, year_to_use, button, page>>

(***************************************************************************)
(* Bounds of the model.                                                    *)
(***************************************************************************)
MaxRows == 2          \* rows in the CSV
NumYears == 2         \* distinct years a CSV row may carry

Years == 2021 .. (2020 + NumYears)
\* Years a request may name: the CSV's years and one year before them.
ReqYears == 2020 .. (2020 + NumYears)

None == [tag |-> "None"]

(***************************************************************************)
(* Sequence helpers standing for Python list comprehensions.               *)
(***************************************************************************)
Range(s) == {s[i] : i \in 1 .. Len(s)}

\* [c for c in s if c not in set]
RECURSIVE NotIn(_, _)
NotIn(s, set) ==
    IF s = <<>> THEN <<>>
    ELSE IF Head(s) \in set THEN NotIn(Tail(s), set)
         ELSE <<Head(s)>> \o NotIn(Tail(s), set)

RECURSIVE SeqsUpTo(_, _)
SeqsUpTo(S, n) ==
    IF n = 0 THEN {<<>>}
    ELSE LET shorter == SeqsUpTo(S, n - 1)
         IN  shorter \cup {Append(s, x) : s \in {t \in shorter : Len(t) = n - 1}, x \in S}

NoRepeat(s) == \A i, j \in 1 .. Len(s) : i # j => s[i] # s[j]

(***************************************************************************)
(* The columns.                                                            *)
(***************************************************************************)
base_feature_cols ==
    << "Subject employees",
       "Denied claims",
       "Fatality claims",
       "Rate: accepted disabling claims per 100 employees" >>

\* f"{col}_lag1"
lag1(col) == col \o "_lag1"

LagCols == [i \in 1 .. Len(base_feature_cols) |-> lag1(base_feature_cols[i])]

ColIndex(col) == CHOOSE i \in 1 .. Len(base_feature_cols) : base_feature_cols[i] = col

(***************************************************************************)
(* The DataFrame read from the CSV: its column labels and its rows in file *)
(* order.  A row is [Year, pos]; the cell of row r in base column c is a   *)
(* number that differs from row to row and from column to column, so that  *)
(* which row and which column a feature came from can be told.             *)
(***************************************************************************)
AlwaysCols == {"Year", "Accepted disabling claims"}

Cell(row, col) == row.pos * 10 + ColIndex(col)

MakeRows(ys) == [i \in 1 .. Len(ys) |-> [Year |-> ys[i], pos |-> i]]

DataFrames ==
    { [columns |-> AlwaysCols \cup present, rows |-> MakeRows(ys)] :
        present \in SUBSET Range(base_feature_cols),
        ys \in SeqsUpTo(Years, MaxRows) }

HasBaseColumns(df) == Range(base_feature_cols) \subseteq df.columns

\* df[df["Year"] == y]
\* (faulty variant: the filter on the year is lost)
AllRows(df, y) == df
RowsOfYear(df, y) ==
    [columns |-> df.columns,
     rows |-> SelectSeq(df.rows, LAMBDA r : <<r.Year>> = y)]

\* df.empty
empty(df) == Len(df.rows) = 0

\* df["Year"].unique(): the distinct values in order of first appearance
RECURSIVE Unique(_)
Unique(s) ==
    IF s = <<>> THEN <<>>
    ELSE LET front == Unique(SubSeq(s, 1, Len(s) - 1))
             last == s[Len(s)]
         IN  IF last \in Range(front) THEN front ELSE Append(front, last)

YearColumn(df) == [i \in 1 .. Len(df.rows) |-> df.rows[i].Year]

(***************************************************************************)
(* int(x) of Python on the values a JSON body can carry under "year".      *)
(*   [t |-> "int", v |-> n]                 a JSON integer                 *)
(*   [t |-> "float", v |-> n, tenths |-> d] the JSON number n.d            *)
(*   [t |-> "str", s |-> <<chars>>]         a JSON string                  *)
(*   [t |-> "null"]                         JSON null                      *)
(* The result is [ok, v, exc]: the integer, or the exception raised.       *)
(***************************************************************************)
DigitVal ==
    ("0" :> 0) @@ ("1" :> 1) @@ ("2" :> 2) @@ ("3" :> 3) @@ ("4" :> 4) @@
    ("5" :> 5) @@ ("6" :> 6) @@ ("7" :> 7) @@ ("8" :> 8) @@ ("9" :> 9)

DigitChar == [d \in 0 .. 9 |-> CHOOSE c \in DOMAIN DigitVal : DigitVal[c] = d]

\* str(n) for n >= 0, as a sequence of characters
RECURSIVE Str(_)
Str(n) == IF n < 10 THEN <<DigitChar[n]>> ELSE Append(Str(n \div 10), DigitChar[n % 10])

RECURSIVE Strip(_)
Strip(s) ==
    IF s = <<>> THEN s
    ELSE IF Head(s) = " " THEN Strip(Tail(s))
    ELSE IF s[Len(s)] = " " THEN Strip(SubSeq(s, 1, Len(s) - 1))
    ELSE s

RECURSIVE DecimalValue(_)
DecimalValue(s) ==
    IF s = <<>> THEN 0
    ELSE DecimalValue(SubSeq(s, 1, Len(s) - 1)) * 10 + DigitVal[s[Len(s)]]

Converted(n) == [ok |-> TRUE, v |-> n, exc |-> ""]
Raised(e) == [ok |-> FALSE, v |-> 0, exc |-> e]

IntOfStr(s) ==
    LET t == Strip(s)
        signed == t # <<>> /\ Head(t) \in {"+", "-"}
        digits == IF signed THEN Tail(t) ELSE t
    IN  IF digits = <<>> \/ \E i \in 1 .. Len(digits) : digits[i] \notin DOMAIN DigitVal
        THEN Raised("ValueError")
        ELSE IF signed /\ Head(t) = "-" THEN Converted(0 - DecimalValue(digits))
        ELSE Converted(DecimalValue(digits))

int(x) ==
    CASE x.t = "int" -> Converted(x.v)
      [] x.t = "float" -> Converted(x.v)         \* truncation toward zero (x >= 0)
      [] x.t = "str" -> IntOfStr(x.s)
      [] OTHER -> Raised("TypeError")

(***************************************************************************)
(* The two fitted artifacts.  Both are opaque pickles; the model keeps of  *)
(* them what the scripts can observe.                                      *)
(*   scaler: the columns it was fit on, in fit order, and whether it       *)
(*           exposes them as feature_names_in_ (it does when it was fit on *)
(*           a DataFrame with string labels).  transform takes the columns *)
(*           BY POSITION, returns a bare array, and raises when the width  *)
(*           of its input is not the width it was fit on.                  *)
(*   model:  a fixed linear function of the scaled array, in thousandths.  *)
(***************************************************************************)
ForeignCol == lag1("Accepted disabling claims")

\* The fit orders tried: every order of the four lagged columns, the four
\* with one left out, and the four with one replaced by a column the scripts
\* never produce.
FitLists ==
    { s \in SeqsUpTo(Range(LagCols), Len(LagCols)) : Len(s) = Len(LagCols) /\ NoRepeat(s) }
    \cup { SelectSeq(LagCols, LAMBDA c : c # out) : out \in Range(LagCols) }
    \cup { [LagCols EXCEPT ![i] = ForeignCol] : i \in {1, Len(LagCols)} }

Scalers == [fit_cols : FitLists, named : BOOLEAN]

TheModel == [intercept |-> 7]

\* hasattr(scaler, "feature_names_in_")
hasattr_feature_names_in_(sc) == sc.named

Names(fv) == [i \in 1 .. Len(fv) |-> fv[i].name]
Values(fv) == [i \in 1 .. Len(fv) |-> fv[i].value]

\* scaler.transform(feature_vector)
transform(sc, fv) ==
    IF Len(fv) # Len(sc.fit_cols)
    THEN [ok |-> FALSE, X |-> <<>>, exc |-> "ValueError"]
    ELSE [ok |-> TRUE, X |-> Values(fv), exc |-> ""]

RECURSIVE Weighted(_)
Weighted(X) == IF X = <<>> THEN 0 ELSE Weighted(SubSeq(X, 1, Len(X) - 1)) + Len(X) * X[Len(X)]

\* model.predict(scaled_feature_vector)[0]
predict_first(m, X) == m.intercept + Weighted(X)

\* round(forecast, 2): thousandths to hundredths, ties to even
round2(f) ==
    LET q == f \div 10
        r == f % 10
    IN  IF r > 5 \/ (r = 5 /\ q % 2 = 1) THEN q + 1 ELSE q

\* int(forecast): thousandths to whole claims
int_of_forecast(f) == f \div 1000

(***************************************************************************)
(* Feature preparation, shared shapes.  A feature vector is a one-row      *)
(* DataFrame: a sequence of [name, value] in column order.                 *)
(***************************************************************************)
Prepared(fv) == [outcome |-> "prepared", cols |-> <<>>, feature_vector |-> fv, exc |-> ""]
Stopped(o, cols) == [outcome |-> o, cols |-> cols, feature_vector |-> <<>>, exc |-> ""]
Threw(e) == [outcome |-> "exception", cols |-> <<>>, feature_vector |-> <<>>, exc |-> e]

\* pd.DataFrame([{f"{col}_lag1": latest_year_data.iloc[n][col]
\*                 for col in base_feature_cols}])
\* with n counted from 1 here.  iloc raises IndexError past the last row, and
\* row[col] raises KeyError for a label the frame does not have.
lagged_feature_row(latest_year_data, n) ==
    IF n > Len(latest_year_data.rows) THEN Threw("IndexError")
    ELSE IF \E i \in 1 .. Len(base_feature_cols) :
                base_feature_cols[i] \notin latest_year_data.columns
    THEN Threw("KeyError")
    ELSE Prepared([i \in 1 .. Len(base_feature_cols) |->
                    [name |-> lag1(base_feature_cols[i]),
                     value |-> Cell(latest_year_data.rows[n], base_feature_cols[i])]])

\* feature_vector[expected_cols]: the columns named, in the order named
\* (faulty variant: the vector keeps the order it was built in)
KeepOrder(fv, expected_cols) == fv
Reindex(fv, expected_cols) ==
    [i \in 1 .. Len(expected_cols) |->
        [name |-> expected_cols[i],
         value |-> (CHOOSE c \in Range(fv) : c.name = expected_cols[i]).value]]

(***************************************************************************)
(* app.py                                                                  *)
(***************************************************************************)
FileNames == {"model", "scaler", "data"}
AllLoadable(f) == \A n \in FileNames : f[n] = "ok"

\* app.py 12-31: the three loads in one try; any exception leaves all three None
\* (faulty variant: the except clause leaves what was already loaded in place)
KeepWhatLoaded(f, d) ==
    [model |-> IF f["model"] = "ok" THEN d.model ELSE None,
     scaler |-> IF f["model"] = "ok" /\ f["scaler"] = "ok" THEN d.scaler ELSE None,
     historical_data |-> IF AllLoadable(f) THEN d.data ELSE None]
app_load(f, d) ==
    IF AllLoadable(f)
    THEN [model |-> d.model, scaler |-> d.scaler, historical_data |-> d.data]
    ELSE [model |-> None, scaler |-> None, historical_data |-> None]

\* [c for c in base_feature_cols if c not in latest_year_data.columns]
\* (faulty variant: the validation finds nothing missing)
NoMissingCols(latest_year_data) == <<>>
missing_base_cols(latest_year_data) == NotIn(base_feature_cols, latest_year_data.columns)

\* The responses of the Flask app.
Response(status, mime, error, years, cols, payload, text) ==
    [status |-> status, mime |-> mime, error |-> error, years |-> years, cols |-> cols,
     payload |-> payload, text |-> text]

\* jsonify({"error": ...}), status
JsonError(status, error, years, cols) ==
    Response(status, "json", error, years, cols, <<>>, "")

\* jsonify({"forecast_for_year": ..., "predicted_disabling_claims": ...}), status 200
JsonForecast(forecast_for_year, predicted_disabling_claims) ==
    Response(200, "json", "", <<>>, <<>>,
             <<[forecast_for_year |-> forecast_for_year,
                predicted_disabling_claims |-> predicted_disabling_claims]>>, "")

\* The page Flask itself answers with when a view raises an HTTPException.
HttpExceptionPage(status) == Response(status, "html", "", <<>>, <<>>, <<>>, "")

\* app.py 54-97: from the year to the vector handed to the scaler
app_prepare(hd, sc, year) ==
    LET latest_year_data == RowsOfYear(hd, <<year>>)
        missing == missing_base_cols(latest_year_data)
        row == lagged_feature_row(latest_year_data, 1)
        feature_vector == row.feature_vector
        expected_cols == sc.fit_cols
        missing_expected == NotIn(expected_cols, Range(Names(feature_vector)))
    IN  IF empty(latest_year_data) THEN Stopped("not_found", <<>>)
        ELSE IF missing # <<>> THEN Stopped("missing_base", missing)
        ELSE IF row.outcome = "exception" THEN row
        ELSE IF hasattr_feature_names_in_(sc)
             THEN IF missing_expected # <<>>
                  THEN Stopped("missing_expected", missing_expected)
                  ELSE Prepared(Reindex(feature_vector, expected_cols))
             ELSE Prepared(feature_vector)

\* The four returns of predict that report a failure it found itself.
not_loaded_response == JsonError(500, "Model or scaler not loaded", <<>>, <<>>)
no_data_response(year) == JsonError(400, "No data found for year", <<year>>, <<>>)
\* (faulty variant: the missing-columns return with status 400)
MissingColumns400(missing) ==
    JsonError(400, "Missing required columns in data", <<>>, missing)
missing_columns_response(missing) ==
    JsonError(500, "Missing required columns in data", <<>>, missing)
missing_expected_response(missing_expected) ==
    JsonError(500, "Prepared features missing expected columns", <<>>, missing_expected)
\* app.py 115-117: except Exception as e
exception_response(exc) == JsonError(400, exc, <<>>, <<>>)

\* "forecast_for_year": year_to_use + 1
\* (faulty variant: the year is reported as requested)
SameYear(year) == year
forecast_for_year(year) == year + 1

Handled(resp, cs, fvs) == [response |-> resp, calls |-> cs, handed |-> fvs]

\* app.py 99-113: scale, predict, build the response (inside the try)
app_score(m, sc, year, fv) ==
    LET scaled == transform(sc, fv)
        forecast == predict_first(m, scaled.X)
    IN  IF ~scaled.ok
        THEN Handled(exception_response(scaled.exc), <<"get_json", "transform">>, <<fv>>)
        ELSE Handled(JsonForecast(forecast_for_year(year), round2(forecast)),
                     <<"get_json", "transform", "predict">>, <<fv>>)

\* app.py 36-117: POST /predict on the body given.  A body is
\* [kind, year], where kind is
\*   "not_json"  bytes that are not JSON: request.get_json() raises
\*   "null"      the JSON value null: request.get_json() returns None
\*   "no_year"   a JSON object without "year"
\*   "year"      a JSON object with "year": body.year
predict(m, sc, hd, body) ==
    LET year == int(body.year)
        prep == app_prepare(hd, sc, year.v)
    IN  IF m = None \/ sc = None THEN Handled(not_loaded_response, <<>>, <<>>)
        ELSE IF body.kind = "not_json"
             THEN Handled(HttpExceptionPage(400), <<"get_json">>, <<>>)
        ELSE IF body.kind = "null"
             THEN Handled(exception_response("TypeError"), <<"get_json">>, <<>>)
        ELSE IF body.kind = "no_year"
             THEN Handled(exception_response("KeyError"), <<"get_json">>, <<>>)
        ELSE IF ~year.ok
             THEN Handled(exception_response(year.exc), <<"get_json">>, <<>>)
        ELSE CASE prep.outcome = "not_found" ->
                    Handled(no_data_response(year.v), <<"get_json">>, <<>>)
               [] prep.outcome = "missing_base" ->
                    Handled(missing_columns_response(prep.cols), <<"get_json">>, <<>>)
               [] prep.outcome = "missing_expected" ->
                    Handled(missing_expected_response(prep.cols), <<"get_json">>, <<>>)
               [] prep.outcome = "exception" ->
                    Handled(exception_response(prep.exc), <<"get_json">>, <<>>)
               [] OTHER -> app_score(m, sc, year.v, prep.feature_vector)

\* app.py 121-123
home == Response(200, "text", "", <<>>, <<>>, <<>>, "WCF Forecasting API is running!")

(***************************************************************************)
(* ui.py                                                                   *)
(***************************************************************************)
\* ui.py 21-41: the loads in file order; only FileNotFoundError is caught
FirstFailure(f) ==
    IF f["model"] # "ok" THEN f["model"]
    ELSE IF f["scaler"] # "ok" THEN f["scaler"]
    ELSE f["data"]

load_resources(f, d) ==
    CASE FirstFailure(f) = "ok" ->
            [raised |-> FALSE, banner |-> "",
             model |-> d.model, scaler |-> d.scaler, historical_data |-> d.data]
      [] FirstFailure(f) = "missing" ->
            [raised |-> FALSE, banner |-> "Model or data files not found",
             model |-> None, scaler |-> None, historical_data |-> None]
      [] OTHER ->
            [raised |-> TRUE, banner |-> "",
             model |-> None, scaler |-> None, historical_data |-> None]

\* What one run of the script renders.
Page(error, warning, exception, options, header, metrics, chart) ==
    [error |-> error, warning |-> warning, exception |-> exception, options |-> options,
     header |-> header, metrics |-> metrics, chart |-> chart]

BlankPage == Page("", "", "", <<>>, <<>>, <<>>, FALSE)

\* ui.py 58
available_years(hd) == Unique(YearColumn(hd))

\* ui.py 62-66: the selectbox before any choice: options[index], index = len - 1;
\* None when there is no option
default_year(options) ==
    IF options = <<>> THEN <<>> ELSE <<options[Len(options)]>>

\* ui.py 96-100: the features come from latest_year_data.iloc[0]
\* (faulty variant: the features come from the last row of the year)
LastRowFeatures(latest_year_data) ==
    lagged_feature_row(latest_year_data, Len(latest_year_data.rows))
ui_lagged_feature_row(latest_year_data) == lagged_feature_row(latest_year_data, 1)

\* ui.py 72-113: from the selected year to the vector handed to the scaler
ui_prepare(hd, sc, selected) ==
    LET latest_year_data == RowsOfYear(hd, selected)
        missing == missing_base_cols(latest_year_data)
        row == ui_lagged_feature_row(latest_year_data)
        feature_vector == row.feature_vector
        expected_cols == sc.fit_cols
        missing_expected == NotIn(expected_cols, Range(Names(feature_vector)))
    IN  IF empty(latest_year_data) THEN Stopped("not_found", <<>>)
        ELSE IF missing # <<>> THEN Stopped("missing_base", missing)
        ELSE IF row.outcome = "exception" THEN row
        ELSE IF hasattr_feature_names_in_(sc)
             THEN IF missing_expected # <<>>
                  THEN Stopped("missing_expected", missing_expected)
                  ELSE Prepared(Reindex(feature_vector, expected_cols))
             ELSE Prepared(feature_vector)

\* latest_year_data["Accepted disabling claims"].iloc[0], in whole claims
previous_year_actual(hd, selected) == RowsOfYear(hd, selected).rows[1].pos * 100

\* int(x) of a number given in thousandths: truncation toward zero
TruncThousandths(x) == IF x >= 0 THEN x \div 1000 ELSE 0 - ((0 - x) \div 1000)

\* st.header(f"Forecast for {year_to_use + 1}")
header_year(year) == year + 1

Rendered(pg, cs, fvs) == [page |-> pg, calls |-> cs, handed |-> fvs]

\* ui.py 115-142: scale, predict, render; nothing here is inside a try
ui_score(m, sc, hd, selected, options, fv) ==
    LET scaled == transform(sc, fv)
        forecast == predict_first(m, scaled.X)
        actual == previous_year_actual(hd, selected)
    IN  IF ~scaled.ok
        THEN Rendered(Page("", "", scaled.exc, options, <<>>, <<>>, FALSE),
                      <<"transform">>, <<fv>>)
        ELSE Rendered(Page("", "", "", options, <<header_year(selected[1])>>,
                           << int_of_forecast(forecast), actual,
                              TruncThousandths(forecast - actual * 1000) >>, TRUE),
                      <<"transform", "predict">>, <<fv>>)

\* ui.py 53-172: one run of the script body after the load, with the selectbox
\* at `selected` and the button pressed or not
script_run(m, sc, hd, selected, pressed) ==
    LET options == available_years(hd)
        prep == ui_prepare(hd, sc, selected)
    IN  IF m = None
        THEN Rendered(Page("", "Could not load the forecasting model", "",
                           <<>>, <<>>, <<>>, FALSE), <<>>, <<>>)
        ELSE IF ~pressed
        THEN Rendered(Page("", "", "", options, <<>>, <<>>, TRUE), <<>>, <<>>)
        ELSE CASE prep.outcome = "not_found" ->
                    Rendered(Page("No data available for the year", "", "", options,
                                  <<>>, <<>>, TRUE), <<>>, <<>>)
               [] prep.outcome = "missing_base" ->
                    Rendered(Page("Missing required columns in data", "", "", options,
                                  <<>>, <<>>, FALSE), <<>>, <<>>)
               [] prep.outcome = "missing_expected" ->
                    Rendered(Page("Prepared features missing expected columns", "", "",
                                  options, <<>>, <<>>, FALSE), <<>>, <<>>)
               [] prep.outcome = "exception" ->
                    Rendered(Page("", "", prep.exc, options, <<>>, <<>>, FALSE),
                             <<>>, <<>>)
               [] OTHER -> ui_score(m, sc, hd, selected, options, prep.feature_vector)

(***************************************************************************)
(* The inputs.                                                             *)
(***************************************************************************)
NoYear == [t |-> "null"]

YearValues ==
    { [t |-> "int", v |-> y] : y \in ReqYears }
    \cup { [t |-> "str", s |-> Str(2022)],
           [t |-> "str", s |-> <<" ">> \o Str(2021) \o <<" ">>],
           [t |-> "str", s |-> <<"2", "0", "2", "l">>] }
    \cup { [t |-> "float", v |-> 2021, tenths |-> d] : d \in {0, 5} }
    \cup { NoYear }

Bodies ==
    { [kind |-> k, year |-> NoYear] : k \in {"not_json", "null", "no_year"} }
    \cup { [kind |-> "year", year |-> v] : v \in YearValues }

FileStates == [FileNames -> {"ok", "missing", "corrupt"}]

\* Scalers tried against a CSV that lacks base columns.
ProbeScalers ==
    { [fit_cols |-> LagCols, named |-> TRUE],
      [fit_cols |-> LagCols, named |-> FALSE],
      [fit_cols |-> [i \in 1 .. Len(LagCols) |-> LagCols[Len(LagCols) + 1 - i]],
       named |-> TRUE],
      [fit_cols |-> [LagCols EXCEPT ![1] = ForeignCol], named |-> TRUE] }

\* Every scaler against every CSV that has the base columns, and the probe
\* scalers against every CSV.
Disks ==
    [model : {TheModel}, scaler : Scalers, data : {df \in DataFrames : HasBaseColumns(df)}]
    \cup [model : {TheModel}, scaler : ProbeScalers, data : DataFrames]

\* The disk of the runs in which a file cannot be loaded.
PlainDisk ==
    [model |-> TheModel,
     scaler |-> [fit_cols |-> LagCols, named |-> TRUE],
     data |-> [columns |-> AlwaysCols \cup Range(base_feature_cols),
               rows |-> MakeRows(<<2021>>)]]

(***************************************************************************)
(* The state machine.                                                      *)
(***************************************************************************)
Init ==
    /\ program \in {"app", "ui"}
    /\ files \in FileStates
    /\ IF AllLoadable(files) THEN disk \in Disks ELSE disk = PlainDisk
    /\ pc = "boot"
    /\ model = None
    /\ scaler = None
    /\ historical_data = None
    /\ request = <<>>
    /\ response = <<>>
    /\ calls = <<>>
    /\ handed = <<>>
    /\ year_to_use = <<>>
    /\ button = FALSE
    /\ page = BlankPage

\* app.py 12-31: the import of the module
AppStart ==
    /\ program = "app"
    /\ pc = "boot"
    /\ LET loaded == app_load(files, disk)
       IN  /\ model' = loaded.model
           /\ scaler' = loaded.scaler
           /\ historical_data' = loaded.historical_data
    /\ pc' = "running"
    /\ UNCHANGED <<program, files, disk, request, response, calls, handed,
                   year_to_use, button, page>>

\* (faulty variant: a scored request consumes the first row of the dataset)
PostPredictDroppingRow(body) ==
    /\ program = "app"
    /\ pc = "running"
    /\ LET done == predict(model, scaler, historical_data, body)
       IN  /\ response' = <<done.response>>
           /\ calls' = done.calls
           /\ handed' = done.handed
           /\ historical_data' =
                IF done.handed = <<>> THEN historical_data
                ELSE [historical_data EXCEPT !.rows = Tail(@)]
    /\ request' = <<[route |-> "POST /predict", body |-> body]>>
    /\ UNCHANGED <<program, files, disk, pc, model, scaler,
                   year_to_use, button, page>>

\* POST /predict
PostPredict(body) ==
    /\ program = "app"
    /\ pc = "running"
    /\ LET done == predict(model, scaler, historical_data, body)
       IN  /\ response' = <<done.response>>
           /\ calls' = done.calls
           /\ handed' = done.handed
    /\ request' = <<[route |-> "POST /predict", body |-> body]>>
    /\ UNCHANGED <<program, files, disk, pc, model, scaler, historical_data,
                   year_to_use, button, page>>

\* GET /
GetHome ==
    /\ program = "app"
    /\ pc = "running"
    /\ response' = <<home>>
    /\ calls' = <<>>
    /\ handed' = <<>>
    /\ request' = <<[route |-> "GET /", body |-> [kind |-> "none", year |-> NoYear]]>>
    /\ UNCHANGED <<program, files, disk, pc, model, scaler, historical_data,
                   year_to_use, button, page>>

\* ui.py: the first run of the script: load_resources, then the page with the
\* selectbox at its default
UiStart ==
    /\ program = "ui"
    /\ pc = "boot"
    /\ LET loaded == load_resources(files, disk)
           selected == IF loaded.model = None THEN <<>>
                       ELSE default_year(available_years(loaded.historical_data))
           run == script_run(loaded.model, loaded.scaler, loaded.historical_data,
                             selected, FALSE)
       IN  /\ model' = loaded.model
           /\ scaler' = loaded.scaler
           /\ historical_data' = loaded.historical_data
           /\ IF loaded.raised
              THEN /\ pc' = "crashed"
                   /\ page' = Page("", "", "Exception", <<>>, <<>>, <<>>, FALSE)
                   /\ year_to_use' = <<>>
              ELSE /\ pc' = "running"
                   /\ page' = [run.page EXCEPT !.error = loaded.banner]
                   /\ year_to_use' = selected
    /\ button' = FALSE
    /\ UNCHANGED <<program, files, disk, request, response, calls, handed>>

\* ui.py: the user picks a year in the selectbox; the script runs again
UiSelect(y) ==
    /\ program = "ui"
    /\ pc = "running"
    /\ model # None
    /\ y \in Range(available_years(historical_data))
    /\ year_to_use' = <<y>>
    /\ button' = FALSE
    /\ LET run == script_run(model, scaler, historical_data, <<y>>, FALSE)
       IN  /\ page' = run.page
           /\ calls' = run.calls
           /\ handed' = run.handed
    /\ UNCHANGED <<program, files, disk, pc, model, scaler, historical_data,
                   request, response>>

\* ui.py: the user presses "Generate Forecast"; the script runs again
UiGenerate ==
    /\ program = "ui"
    /\ pc = "running"
    /\ model # None
    /\ button' = TRUE
    /\ LET run == script_run(model, scaler, historical_data, year_to_use, TRUE)
       IN  /\ page' = run.page
           /\ calls' = run.calls
           /\ handed' = run.handed
    /\ UNCHANGED <<program, files, disk, pc, model, scaler, historical_data,
                   request, response, year_to_use>>

Next ==
    \/ AppStart
    \/ \E body \in Bodies : PostPredict(body)
    \/ GetHome
    \/ UiStart
    \/ \E y \in Years : UiSelect(y)
    \/ UiGenerate

Spec == Init /\ [][Next]_vars

(***************************************************************************)
(* Properties.                                                             *)
(***************************************************************************)
IsPost == request # <<>> /\ request[1].route = "POST /predict"
IsGet == request # <<>> /\ request[1].route = "GET /"
Loaded == pc = "running" /\ model # None
Transformed == "transform" \in Range(calls)
Predicted == "predict" \in Range(calls)

\* The year of the request the state shows handled, as an integer.
AppYear == int(request[1].body.year)
AppYearGiven == IsPost /\ request[1].body.kind = "year" /\ AppYear.ok

YearsOf(df) == Range(YearColumn(df))

\* The first CSV row of year y, in file order.
FirstRowOf(df, y) ==
    df.rows[CHOOSE i \in 1 .. Len(df.rows) :
                /\ df.rows[i].Year = y
                /\ \A j \in 1 .. (i - 1) : df.rows[j].Year # y]

\* fv holds, under each lagged name, the cell of `row` in the base column of
\* that name.
TakenFrom(fv, row) ==
    \A i \in 1 .. Len(fv) :
        \E c \in Range(base_feature_cols) :
            fv[i].name = lag1(c) /\ fv[i].value = Cell(row, c)

HandedYear == IF program = "app" THEN AppYear.v ELSE year_to_use[1]

C2_AbsentYearNotFound ==
    (AppYearGiven /\ Loaded /\ AppYear.v \notin YearsOf(historical_data)) =>
        /\ response[1].status = 400
        /\ response[1].mime = "json"
        /\ response[1].error = "No data found for year"
        /\ response[1].years = <<AppYear.v>>
        /\ response[1].payload = <<>>
        /\ ~Transformed /\ ~Predicted
        /\ handed = <<>>

C2_Witness ==
    /\ AppYearGiven /\ Loaded
    /\ AppYear.v \notin YearsOf(historical_data)
    /\ historical_data.rows # <<>>
    /\ response[1].status = 400

\* C3: when a file cannot be loaded at startup, the app holds no artifact at
\* all, every POST /predict is answered 500 "Model or scaler not loaded"
\* before the request is read, and GET / still answers its fixed text.
C3_DegradedFailsEveryRequest ==
    (program = "app" /\ pc = "running") =>
        /\ (model = None) = (scaler = None)
        /\ (model = None) = (historical_data = None)
        /\ (model = None) = ~AllLoadable(files)
        /\ (IsPost /\ ~AllLoadable(files)) =>
                /\ response[1].status = 500
                /\ response[1].mime = "json"
                /\ response[1].error = "Model or scaler not loaded"
                /\ response[1].payload = <<>>
                /\ calls = <<>>
        /\ IsGet =>
                /\ response[1].status = 200
                /\ response[1].text = "WCF Forecasting API is running!"

C3_Witness ==
    /\ program = "app" /\ pc = "running"
    /\ files["model"] = "ok" /\ files["scaler"] = "corrupt"
    /\ IsPost /\ request[1].body.kind = "year"
    /\ response[1].status = 500

\* The failures C4 names, told from the state alone.
NotLoadedCase == IsPost /\ pc = "running" /\ model = None
NotFoundCase == AppYearGiven /\ Loaded /\ AppYear.v \notin YearsOf(historical_data)
MissingBaseCase ==
    /\ AppYearGiven /\ Loaded
    /\ AppYear.v \in YearsOf(historical_data)
    /\ ~HasBaseColumns(historical_data)
MissingExpectedCase ==
    /\ AppYearGiven /\ Loaded
    /\ AppYear.v \in YearsOf(historical_data)
    /\ HasBaseColumns(historical_data)
    /\ scaler.named
    /\ ~(Range(scaler.fit_cols) \subseteq Range(LagCols))

JsonErrorWith(status) ==
    /\ response[1].status = status
    /\ response[1].mime = "json"
    /\ response[1].error # ""
    /\ response[1].payload = <<>>

\* C4 as stated: year not found and base columns missing give 400; artifacts
\* not loaded and an expected column missing give 500; all are JSON errors.
C4_StatusCodesAsStated ==
    /\ NotFoundCase => JsonErrorWith(400)
    /\ MissingBaseCase => JsonErrorWith(400)
    /\ NotLoadedCase => JsonErrorWith(500)
    /\ MissingExpectedCase => JsonErrorWith(500)

\* C4, amended: year not found gives 400; base columns missing from the data,
\* artifacts not loaded and an expected column missing give 500; all are JSON
\* errors.
C4_StatusCodes ==
    /\ NotFoundCase => JsonErrorWith(400)
    /\ MissingBaseCase =>
            JsonErrorWith(500) /\ response[1].error = "Missing required columns in data"
    /\ NotLoadedCase => JsonErrorWith(500)
    /\ MissingExpectedCase =>
            /\ JsonErrorWith(500)
            /\ response[1].error = "Prepared features missing expected columns"

C4_Witness == MissingBaseCase /\ response[1].status = 500

\* C5 as stated: with a dataset that lacks a base column, a request for any
\* year fails with the missing-columns error, and scaler.transform and
\* model.predict are never called for it.
C5_SchemaErrorForEveryYear ==
    (AppYearGiven /\ Loaded /\ ~HasBaseColumns(historical_data)) =>
        /\ response[1].error = "Missing required columns in data"
        /\ ~Transformed /\ ~Predicted

\* C5, amended: with a dataset that lacks a base column, no request and no button press
\* ever reaches scaler.transform or model.predict, and a request for a year
\* that has a row is answered with the missing-columns error (the dashboard
\* stops the script run there).
C5_MissingBaseNeverScales ==
    (Loaded /\ ~HasBaseColumns(historical_data)) =>
        /\ ~Transformed /\ ~Predicted /\ handed = <<>>
        /\ MissingBaseCase =>
                /\ response[1].error = "Missing required columns in data"
                /\ response[1].cols = NotIn(base_feature_cols, historical_data.columns)
                /\ response[1].payload = <<>>
        /\ (program = "ui" /\ button /\ year_to_use # <<>>) =>
                /\ page.error = "Missing required columns in data"
                /\ page.exception = ""
                /\ page.header = <<>>
                /\ ~page.chart

C5_Witness ==
    /\ MissingBaseCase
    /\ Cardinality(Range(response[1].cols)) = 2

\* C6 as stated: every failed prediction request is rendered as an error of
\* its medium, a JSON {error} body for POST /predict and an error banner on the
\* dashboard; none ends in an exception nobody caught, and a forecast is only
\* ever reported after the model was called.
C6_EveryFailureRendered ==
    /\ IsPost =>
            /\ response[1].mime = "json"
            /\ (response[1].payload = <<>>) = (response[1].error # "")
            /\ response[1].payload # <<>> => Predicted
    /\ (program = "ui" /\ button) =>
            /\ page.exception = ""
            /\ page.header = <<>> => (page.error # "")
            /\ page.header # <<>> => Predicted

Forecast == response[1].payload[1]
AppScored == IsPost /\ response[1].payload # <<>>

\* The year a JSON value denotes, in tenths of a year.
YearTenths(x) ==
    CASE x.t = "int" -> x.v * 10
      [] x.t = "float" -> x.v * 10 + x.tenths
      [] OTHER -> int(x).v * 10

\* C7 as stated: the forecast year reported equals the requested year + 1,
\* for every request that is answered with a forecast.
C7_ForecastYearIsRequestedPlusOne ==
    /\ AppScored =>
            Forecast.forecast_for_year * 10 = YearTenths(request[1].body.year) + 10
    /\ (program = "ui" /\ page.header # <<>>) => page.header[1] = year_to_use[1] + 1

\* C7, amended: the forecast year reported equals int(requested year) + 1, the
\* requested year cut to a whole number first; the dashboard header shows the
\* selected year + 1.
C7_ForecastYearIsIntYearPlusOne ==
    /\ AppScored =>
            /\ request[1].body.kind = "year"
            /\ AppYear.ok
            /\ Forecast.forecast_for_year = AppYear.v + 1
    /\ (program = "ui" /\ page.header # <<>>) => page.header[1] = year_to_use[1] + 1

C7_Witness ==
    /\ AppScored
    /\ request[1].body.year.t = "str"
    /\ Forecast.forecast_for_year = 2023

Max(S) == CHOOSE m \in S : \A x \in S : x <= m

\* C9 as stated: on the first run of the dashboard the selectbox offers exactly
\* the distinct years of the dataset and is set to the greatest of them.
C9_DefaultIsMostRecentYear ==
    [][(program = "ui" /\ pc = "boot" /\ pc' = "running" /\ model' # None) =>
            /\ Range(page'.options) = YearsOf(historical_data')
            /\ NoRepeat(page'.options)
            /\ page'.options # <<>> => year_to_use' = <<Max(YearsOf(historical_data'))>>
      ]_vars

\* C10: on every dataset, scaler and year the two front-ends prepare alike:
\* the same outcome (year not found, base column missing, expected column
\* missing, or a vector to score), the same columns reported, the same vector
\* in the same order, taken from the first row of the year.
C10_SamePreparation ==
    Loaded =>
        \A y \in ReqYears :
            LET a == app_prepare(historical_data, scaler, y)
                u == ui_prepare(historical_data, scaler, <<y>>)
            IN  /\ a = u
                /\ a.outcome \in {"not_found", "missing_base", "missing_expected", "prepared"}
                /\ a.outcome = "prepared" =>
                        TakenFrom(u.feature_vector, FirstRowOf(historical_data, y))

C10_Witness ==
    /\ program = "ui" /\ Loaded /\ button
    /\ handed # <<>>
    /\ Len(historical_data.rows) = 2
    /\ historical_data.rows[1].Year = historical_data.rows[2].Year
    /\ scaler.named /\ scaler.fit_cols # LagCols

====
